---- MODULE Spec2Model ----
(***************************************************************************)
(* Role-binding handlers of api/http/handler/kubernetes/role_bindings.go:  *)
(* getAllKubernetesRoleBindings (list) and deleteRoleBindings (bulk        *)
(* delete), run against one cluster.  Requests are served one at a time.   *)
(* The handlers are translated from the source; the client capabilities    *)
(* they call (prepareKubeClient, getProxyKubeClient, GetRoleBindings,      *)
(* KubeClient.DeleteRoleBindings, DecodeAndValidateJSONPayload) live       *)
(* outside this file and follow the written specification.                 *)
(***************************************************************************)
EXTENDS Integers, Sequences, FiniteSets, TLC

VARIABLES
    bindings,   \* (namespace, name) pairs of the role bindings in the cluster
    protected,  \* bindings the caller's client is not allowed to delete
    pc,         \* position of the bulk-delete request: "idle", "deleting", "done"
    body,       \* request body of the bulk-delete request, keys in textual order
    reachable,  \* whether a client can be obtained for the request's environment
    payload,    \* the decoded payload: a map namespace -> sequence of names
    order,      \* order in which this run ranges over the keys of the map
    idx,        \* index in Items of the next delete attempt
    attempts,   \* delete calls issued against the cluster by this request
    start,      \* the cluster's bindings when the request arrived
    asked,      \* whether the request asked for a cluster client
    resp,       \* response of the bulk-delete request
    listed      \* the list request served since the last bulk delete, if any

vars == <<bindings, protected, pc, body, reachable, payload, order, idx,
          attempts, start, asked, resp, listed>>

\* Longest sequence of names under one namespace key of a request body.
MaxNames == 2

Namespaces == {"team-a", "team-b"}

BindingNames == {"view", "edit"}

Pairs == Namespaces \X BindingNames

----------------------------------------------------------------------------
(* Responses *)

NoResponse == [status |-> "none", msg |-> ""]

BadRequest(msg) == [status |-> "BadRequest", msg |-> msg]

InternalServerError(msg) == [status |-> "InternalServerError", msg |-> msg]

Empty == [status |-> "NoContent", msg |-> ""]

JSON == [status |-> "OK", msg |-> ""]

IsServerError(r) == r.status = "InternalServerError"

IsClientError(r) == r.status = "BadRequest"

----------------------------------------------------------------------------
(* Request bodies *)

NameSeqs == UNION {[1..n -> BindingNames] : n \in 1..MaxNames}

\* A JSON object: entries <<namespace, names>> in textual order, keys distinct.
Entries ==
    UNION {{e \in [1..n -> Namespaces \X NameSeqs] :
               \A i, j \in 1..n : i # j => e[i][1] # e[j][1]} :
           n \in 1..Cardinality(Namespaces)}

Malformed == [ok |-> FALSE, entries |-> <<>>]

Bodies == {Malformed} \cup {[ok |-> TRUE, entries |-> e] : e \in Entries}

EmptyPayload == [ns \in {} |-> <<>>]

\* Variant: a decoder that fills each sequence back to front.
DecodePayloadReversed(b) ==
    [ns \in {b.entries[i][1] : i \in DOMAIN b.entries} |->
        LET i == CHOOSE k \in DOMAIN b.entries : b.entries[k][1] = ns
            names == b.entries[i][2]
        IN  [j \in 1..Len(names) |-> names[Len(names) + 1 - j]]]

\* Decoding into the map type: the keys and their sequences, not the order
\* in which the body listed the keys.
DecodePayload(b) ==
    [ns \in {b.entries[i][1] : i \in DOMAIN b.entries} |->
        LET i == CHOOSE k \in DOMAIN b.entries : b.entries[k][1] = ns
        IN  b.entries[i][2]]

DecodeAndValidateJSONPayload(b) ==
    IF b.ok THEN [err |-> FALSE, payload |-> DecodePayload(b)]
            ELSE [err |-> TRUE, payload |-> EmptyPayload]

----------------------------------------------------------------------------
(* Client capabilities *)

ClientUnavailable == InternalServerError("ClientUnavailable")

getProxyKubeClient(reach) ==
    IF reach THEN [ok |-> TRUE, err |-> NoResponse]
             ELSE [ok |-> FALSE, err |-> ClientUnavailable]

prepareKubeClient(reach) ==
    IF reach THEN [ok |-> TRUE, err |-> NoResponse]
             ELSE [ok |-> FALSE, err |-> ClientUnavailable]

\* Variant: the delete of an absent binding is reported as an error.
DeleteRoleBindingAbsentFails(ns, name, bs, prot) ==
    IF <<ns, name>> \notin bs \/ <<ns, name>> \in prot
    THEN [result |-> "failed", bindings |-> bs]
    ELSE [result |-> "deleted", bindings |-> bs \ {<<ns, name>>}]

\* One delete of one binding: an absent binding is not an error, a binding the
\* caller may not delete is.
DeleteRoleBinding(ns, name, bs, prot) ==
    IF <<ns, name>> \notin bs THEN [result |-> "absent", bindings |-> bs]
    ELSE IF <<ns, name>> \in prot THEN [result |-> "failed", bindings |-> bs]
    ELSE [result |-> "deleted", bindings |-> bs \ {<<ns, name>>}]

\* The orders in which a range over the keys of a map may visit them.
KeyOrders(keys) ==
    {o \in [1..Cardinality(keys) -> keys] :
        \A i, j \in 1..Cardinality(keys) : i # j => o[i] # o[j]}

RECURSIVE Flatten(_, _)
Flatten(p, o) ==
    IF o = <<>> THEN <<>>
    ELSE [j \in 1..Len(p[Head(o)]) |->
             [ns |-> Head(o), name |-> p[Head(o)][j], j |-> j]]
         \o Flatten(p, Tail(o))

\* The delete attempts of the run in the order the loops reach them.
Items == Flatten(payload, order)

----------------------------------------------------------------------------
(* Handlers *)

\* Variant: the handler does not return on handlerErr and calls the client.
deleteRoleBindingsEntryIgnoresClientErr(b, reach) ==
    LET dec == DecodeAndValidateJSONPayload(b) IN
    IF dec.err
    THEN [proceed |-> FALSE, resp |-> BadRequest("Invalid request payload"),
          asked |-> FALSE, payload |-> EmptyPayload]
    ELSE [proceed |-> TRUE, resp |-> NoResponse,
          asked |-> TRUE, payload |-> dec.payload]

\* Variant: the handler gets the client before it decodes the payload.
deleteRoleBindingsEntryClientFirst(b, reach) ==
    LET cli == getProxyKubeClient(reach)
        dec == DecodeAndValidateJSONPayload(b)
    IN  IF ~cli.ok
        THEN [proceed |-> FALSE, resp |-> cli.err,
              asked |-> TRUE, payload |-> EmptyPayload]
        ELSE IF dec.err
        THEN [proceed |-> FALSE, resp |-> BadRequest("Invalid request payload"),
              asked |-> TRUE, payload |-> EmptyPayload]
        ELSE [proceed |-> TRUE, resp |-> NoResponse,
              asked |-> TRUE, payload |-> dec.payload]

\* deleteRoleBindings up to the call of the client: decode, then get a client.
deleteRoleBindingsEntry(b, reach) ==
    LET dec == DecodeAndValidateJSONPayload(b) IN
    IF dec.err
    THEN [proceed |-> FALSE, resp |-> BadRequest("Invalid request payload"),
          asked |-> FALSE, payload |-> EmptyPayload]
    ELSE LET cli == getProxyKubeClient(reach) IN
         IF ~cli.ok
         THEN [proceed |-> FALSE, resp |-> cli.err,
               asked |-> TRUE, payload |-> dec.payload]
         ELSE [proceed |-> TRUE, resp |-> NoResponse,
               asked |-> TRUE, payload |-> dec.payload]

\* Variant: the handler drops the client's error and answers with success.
deleteRoleBindingsReturnIgnoresErr(err, bs, st) ==
    [resp |-> Empty, bindings |-> bs]

\* Variant: the handler tests the error the wrong way round.
deleteRoleBindingsReturnInverted(err, bs, st) ==
    [resp |-> IF ~err THEN InternalServerError("Failed to delete role bindings")
                      ELSE Empty,
     bindings |-> bs]

\* Variant: on an error the handler restores the bindings the request found.
deleteRoleBindingsReturnRollback(err, bs, st) ==
    [resp |-> IF err THEN InternalServerError("Failed to delete role bindings")
                     ELSE Empty,
     bindings |-> IF err THEN st ELSE bs]

\* deleteRoleBindings after the client returned: the response, and the cluster
\* as the handler leaves it (it issues no further call).
deleteRoleBindingsReturn(err, bs, st) ==
    [resp |-> IF err THEN InternalServerError("Failed to delete role bindings")
                     ELSE Empty,
     bindings |-> bs]

\* Variant: the handler does not return on the fetch error and goes on to
\* answer with what it holds.
getAllKubernetesRoleBindingsReturnFallsThrough(reach, fetchOK, bs) ==
    LET cli == prepareKubeClient(reach) IN
    IF ~cli.ok
    THEN [resp |-> InternalServerError("unable to prepare kube client"),
          body |-> {}, fetches |-> 0, bindings |-> bs]
    ELSE [resp |-> JSON, body |-> IF fetchOK THEN bs ELSE {},
          fetches |-> 1, bindings |-> bs]

\* getAllKubernetesRoleBindings as a whole.
getAllKubernetesRoleBindingsReturn(reach, fetchOK, bs) ==
    LET cli == prepareKubeClient(reach) IN
    IF ~cli.ok
    THEN [resp |-> InternalServerError("unable to prepare kube client"),
          body |-> {}, fetches |-> 0, bindings |-> bs]
    ELSE IF ~fetchOK
    THEN [resp |-> InternalServerError("unable to fetch rolebindings"),
          body |-> {}, fetches |-> 1, bindings |-> bs]
    ELSE [resp |-> JSON, body |-> bs, fetches |-> 1, bindings |-> bs]

NotListed ==
    [resp |-> NoResponse, body |-> {}, fetches |-> 0,
     reachable |-> FALSE, before |-> {}]

----------------------------------------------------------------------------

Init ==
    /\ bindings \in SUBSET Pairs
    /\ protected \in SUBSET bindings
    /\ pc = "idle"
    /\ body = Malformed
    /\ reachable = FALSE
    /\ payload = EmptyPayload
    /\ order = <<>>
    /\ idx = 1
    /\ attempts = <<>>
    /\ start = bindings
    /\ asked = FALSE
    /\ resp = NoResponse
    /\ listed = NotListed

\* A bulk-delete request arrives and runs up to its first call of the cluster.
deleteRoleBindings ==
    /\ pc = "idle"
    /\ \E b \in Bodies, reach \in BOOLEAN :
         LET e == deleteRoleBindingsEntry(b, reach) IN
         /\ body' = b
         /\ reachable' = reach
         /\ payload' = e.payload
         /\ asked' = e.asked
         /\ attempts' = <<>>
         /\ start' = bindings
         /\ idx' = 1
         /\ listed' = NotListed
         /\ IF e.proceed
            THEN /\ order' \in KeyOrders(DOMAIN e.payload)
                 /\ pc' = "deleting"
                 /\ resp' = NoResponse
            ELSE /\ order' = <<>>
                 /\ pc' = "done"
                 /\ resp' = e.resp
    /\ UNCHANGED <<bindings, protected>>

\* One iteration of the client's loops: one delete call.  The first failing
\* call ends the loops and the handler answers; so does the last call.
DeleteRoleBindingsStep ==
    /\ pc = "deleting"
    /\ LET it == Items[idx]
           d == DeleteRoleBinding(it.ns, it.name, bindings, protected)
           failed == d.result = "failed"
           ret == deleteRoleBindingsReturn(failed, d.bindings, start)
       IN  /\ attempts' = Append(attempts,
                 [ns |-> it.ns, name |-> it.name, j |-> it.j, result |-> d.result])
           /\ IF failed \/ idx = Len(Items)
              THEN /\ pc' = "done"
                   /\ resp' = ret.resp
                   /\ bindings' = ret.bindings
                   /\ idx' = idx
              ELSE /\ pc' = "deleting"
                   /\ resp' = resp
                   /\ bindings' = d.bindings
                   /\ idx' = idx + 1
    /\ UNCHANGED <<protected, body, reachable, payload, order, start, asked, listed>>

\* A list request arrives and is served.
getAllKubernetesRoleBindings ==
    /\ pc \in {"idle", "done"}
    /\ \E reach \in BOOLEAN, fetchOK \in BOOLEAN :
         LET r == getAllKubernetesRoleBindingsReturn(reach, fetchOK, bindings) IN
         /\ listed' = [resp |-> r.resp, body |-> r.body, fetches |-> r.fetches,
                       reachable |-> reach, before |-> bindings]
         /\ bindings' = r.bindings
    /\ UNCHANGED <<protected, pc, body, reachable, payload, order, idx,
                   attempts, start, asked, resp>>

\* The answered bulk-delete request is over: its batch and its client are
\* dropped, the cluster stays as the request left it.
discardRequest ==
    /\ pc = "done"
    /\ pc' = "idle"
    /\ body' = Malformed
    /\ reachable' = FALSE
    /\ payload' = EmptyPayload
    /\ order' = <<>>
    /\ idx' = 1
    /\ attempts' = <<>>
    /\ start' = bindings
    /\ asked' = FALSE
    /\ resp' = NoResponse
    /\ listed' = NotListed
    /\ UNCHANGED <<bindings, protected>>

Next ==
    \/ deleteRoleBindings
    \/ DeleteRoleBindingsStep
    \/ getAllKubernetesRoleBindings
    \/ discardRequest

Spec == Init /\ [][Next]_vars

----------------------------------------------------------------------------
(* The batch as the caller wrote it *)

RECURSIVE PayloadItems(_)
\* The items of a body in payload order: keys in textual order, names in
\* the order of each key's sequence.
PayloadItems(es) ==
    IF es = <<>> THEN <<>>
    ELSE [j \in 1..Len(es[1][2]) |->
             [ns |-> es[1][1], name |-> es[1][2][j], j |-> j]]
         \o PayloadItems(Tail(es))

\* Position in payload order of the j-th name under namespace ns.
PayloadPos(ns, j) ==
    CHOOSE i \in DOMAIN PayloadItems(body.entries) :
        /\ PayloadItems(body.entries)[i].ns = ns
        /\ PayloadItems(body.entries)[i].j = j

\* The sequence of names the body gives under namespace ns.
BodyNames(ns) ==
    LET i == CHOOSE k \in DOMAIN body.entries : body.entries[k][1] = ns
    IN  body.entries[i][2]

BodyKeys == {body.entries[i][1] : i \in DOMAIN body.entries}

\* The (namespace, name) pairs of the submitted batch.
BodyPairs ==
    {<<PayloadItems(body.entries)[i].ns, PayloadItems(body.entries)[i].name>> :
        i \in DOMAIN PayloadItems(body.entries)}

AttemptPair(k) == <<attempts[k].ns, attempts[k].name>>

HasFailure == \E k \in DOMAIN attempts : attempts[k].result = "failed"

\* The bindings this request's delete calls removed.
Deleted == {AttemptPair(k) : k \in {m \in DOMAIN attempts : attempts[m].result = "deleted"}}

\* The batch reached the client: the payload was valid and a client was obtained.
Ran == body.ok /\ reachable /\ pc # "idle"

RemoveAt(s, m) == [i \in 1..(Len(s) - 1) |-> IF i < m THEN s[i] ELSE s[i + 1]]

RECURSIVE RunBatch(_, _, _)
\* The client's loops over a sequence of items, run to their end on a cluster.
RunBatch(items, bs, prot) ==
    IF items = <<>> THEN [failed |-> FALSE, bindings |-> bs]
    ELSE LET d == DeleteRoleBinding(items[1].ns, items[1].name, bs, prot) IN
         IF d.result = "failed" THEN [failed |-> TRUE, bindings |-> d.bindings]
         ELSE RunBatch(Tail(items), d.bindings, prot)

----------------------------------------------------------------------------
(* Claims *)

\* C1 (as stated): with positions counted in payload order, once the attempt
\* for item k fails no item at a later payload position is ever attempted, and
\* the request ends with a server error.
C1_AbortInPayloadOrder ==
    \A k \in DOMAIN attempts :
        attempts[k].result = "failed" =>
            /\ \A m \in DOMAIN attempts :
                   PayloadPos(attempts[m].ns, attempts[m].j)
                       <= PayloadPos(attempts[k].ns, attempts[k].j)
            /\ pc = "done" /\ IsServerError(resp)

\* C1 (amended): with positions counted in the order the run reaches the items
\* (Items), the attempts are a prefix of that order, a failed attempt is the
\* last attempt of the request, and the request then ends with a server error
\* and not with the empty success.
C1_FailFast ==
    /\ Len(attempts) <= Len(Items)
    /\ \A k \in DOMAIN attempts :
           /\ attempts[k].ns = Items[k].ns
           /\ attempts[k].name = Items[k].name
           /\ attempts[k].j = Items[k].j
           /\ attempts[k].result = "failed" =>
                  /\ k = Len(attempts)
                  /\ pc = "done"
                  /\ IsServerError(resp)
                  /\ resp # Empty

\* The third item of a longer batch failed and the request is over.
C1_Witness ==
    /\ pc = "done"
    /\ Len(attempts) = 3
    /\ attempts[3].result = "failed"
    /\ attempts[1].result = "deleted"
    /\ attempts[2].result = "deleted"
    /\ Len(Items) > 3

\* C2: no rollback. Once an attempt of the request has failed, the cluster is
\* the cluster at the request's arrival minus exactly the bindings its earlier
\* attempts deleted, in the terminal state and as long as the request is known.
C2_NoRollback ==
    HasFailure =>
        /\ pc = "done"
        /\ bindings = start \ Deleted
        /\ Deleted \cap bindings = {}

\* A batch aborted after it had deleted something, and a list was served since.
C2_Witness ==
    /\ HasFailure
    /\ Deleted # {}
    /\ listed.resp = JSON

C4_InvalidPayload ==
    (~body.ok /\ pc # "idle") =>
        /\ pc = "done"
        /\ IsClientError(resp)
        /\ ~IsServerError(resp)
        /\ resp = BadRequest("Invalid request payload")
        /\ ~asked
        /\ attempts = <<>>
        /\ bindings = start

\* A malformed body was sent to an unreachable environment.
C4_Witness ==
    /\ ~body.ok /\ pc = "done" /\ ~reachable
    /\ bindings # {}

C6_PayloadOrder ==
    \A k \in DOMAIN attempts :
        /\ attempts[k].ns = PayloadItems(body.entries)[k].ns
        /\ attempts[k].name = PayloadItems(body.entries)[k].name

\* C6 (amended): the attempts are issued one namespace after the other, each
\* key of the body at most once and in some order of the keys, and within a
\* namespace the names are attempted in the order of its sequence, from its
\* first name on without a gap.
C6_SequenceOrder ==
    \A k \in DOMAIN attempts :
        /\ attempts[k].ns \in BodyKeys
        /\ attempts[k].j \in DOMAIN BodyNames(attempts[k].ns)
        /\ attempts[k].name = BodyNames(attempts[k].ns)[attempts[k].j]
        /\ IF k > 1 /\ attempts[k - 1].ns = attempts[k].ns
           THEN attempts[k].j = attempts[k - 1].j + 1
           ELSE /\ attempts[k].j = 1
                /\ \A m \in 1..(k - 1) : attempts[m].ns # attempts[k].ns
                /\ k > 1 => attempts[k - 1].j = Len(BodyNames(attempts[k - 1].ns))

\* A run over two namespaces visited them in the other order than the body
\* lists them, two distinct names under the first one it visited.
C6_Witness ==
    /\ pc = "done"
    /\ Len(attempts) >= 3
    /\ attempts[1].ns # body.entries[1][1]
    /\ attempts[1].ns = attempts[2].ns
    /\ attempts[1].name # attempts[2].name

C8_ListAllOrNothing ==
    (listed.resp # NoResponse /\ listed.reachable) =>
        /\ listed.fetches = 1
        /\ \/ listed.resp = JSON /\ listed.body = listed.before
           \/ /\ IsServerError(listed.resp)
              /\ listed.resp.msg = "unable to fetch rolebindings"
              /\ listed.body = {}

\* The retrieval failed on a cluster that holds bindings.
C8_Witness ==
    /\ listed.reachable
    /\ IsServerError(listed.resp)
    /\ listed.before # {}

\* C9: a run makes at most one attempt per item occurrence, in steps that each
\* add one attempt (so it is over after at most Len(Items) steps), and ends in
\* exactly one of the empty success and the server error; it ends in success
\* if and only if every item occurrence was attempted and no attempt failed.
C9_Termination ==
    Ran =>
        /\ Len(attempts) <= Len(Items)
        /\ pc = "deleting" => (idx = Len(attempts) + 1 /\ idx <= Len(Items) /\ ~HasFailure)
        /\ pc = "done" =>
             /\ resp \in {Empty, InternalServerError("Failed to delete role bindings")}
             /\ resp = Empty <=> (Len(attempts) = Len(Items) /\ ~HasFailure)
             /\ IsServerError(resp) <=> HasFailure

\* A run attempted every item of a four-item batch and failed at the last one.
C9_Witness ==
    /\ Ran /\ pc = "done"
    /\ Len(Items) = 4
    /\ Len(attempts) = 4
    /\ HasFailure

\* C10: no step adds a binding; a step removes only pairs of the batch of the
\* request being served; a step that serves a list request leaves the
\* bindings as they were.
C10_Frame ==
    [][/\ bindings' \subseteq bindings
       /\ (bindings \ bindings') \subseteq BodyPairs'
       /\ (listed' # listed /\ listed' # NotListed) => bindings' = bindings]_vars

\* A batch removed some bindings and left others, and a list was served after.
C10_Witness ==
    /\ pc = "done"
    /\ bindings # start
    /\ bindings # {}
    /\ listed.resp = JSON

====
